---- MODULE Spec2Model ----
(***************************************************************************)
(* A model of ip_calc.py, the IPv4 CIDR calculator.                        *)
(*                                                                         *)
(* A text is a sequence of characters, each character a string.  Besides   *)
(* the ASCII characters the alphabet holds two characters that are named,  *)
(* not written: "ar1", ARABIC-INDIC DIGIT ONE (str.isdigit accepts it and  *)
(* int() reads it as 1), and "sup2", SUPERSCRIPT TWO (str.isdigit accepts  *)
(* it and int() raises ValueError on it).                                  *)
(*                                                                         *)
(* A Python int that may exceed 2^31 is a pair <<hi, lo>> of value         *)
(* hi * 2^16 + lo with lo in 0..65535 (hi may be negative or above 65535), *)
(* so the arithmetic on 32-bit address values is exact.                    *)
(***************************************************************************)
EXTENDS Integers, Sequences, FiniteSets, TLC

VARIABLES inp, op, result

vars == <<inp, op, result>>

(***************************************************************************)
(* Bounds of the inputs the model draws.                                   *)
(***************************************************************************)
MaxOctetValue == 257
MaxPrefixValue == 34
MaxPad == 1
MaxSegs == 5
MaxParts == 3

(***************************************************************************)
(* Python ints                                                             *)
(***************************************************************************)
Half == 2 ^ 16

Wide(n) == <<n \div Half, n % Half>>

Small(w) == w[1] * Half + w[2]

WAdd(w, k) == <<w[1] + ((w[2] + k) \div Half), (w[2] + k) % Half>>

WLe(a, b) == a[1] < b[1] \/ (a[1] = b[1] /\ a[2] <= b[2])

RECURSIVE BitAnd(_, _)
BitAnd(x, y) ==
    IF x = 0 \/ y = 0 THEN 0
    ELSE 2 * BitAnd(x \div 2, y \div 2) + (IF x % 2 = 1 /\ y % 2 = 1 THEN 1 ELSE 0)

RECURSIVE BitOr(_, _)
BitOr(x, y) ==
    IF x = 0 THEN y
    ELSE IF y = 0 THEN x
    ELSE 2 * BitOr(x \div 2, y \div 2) + (IF x % 2 = 1 \/ y % 2 = 1 THEN 1 ELSE 0)

\* '|' written where '&' is meant
WAnd_AsOr(a, b) == <<BitOr(a[1], b[1]), BitOr(a[2], b[2])>>

\* a & b, on non-negative ints
WAnd(a, b) == <<BitAnd(a[1], b[1]), BitAnd(a[2], b[2])>>

\* '&' written where '|' is meant
WOr_AsAnd(a, b) == <<BitAnd(a[1], b[1]), BitAnd(a[2], b[2])>>

\* a | b, on non-negative ints
WOr(a, b) == <<BitOr(a[1], b[1]), BitOr(a[2], b[2])>>

\* 2 ** e, 0 <= e <= 32
WPow2(e) == IF e < 16 THEN <<0, 2 ^ e>> ELSE <<2 ^ (e - 16), 0>>

(***************************************************************************)
(* Python str                                                              *)
(***************************************************************************)
AsciiDigits == <<"0", "1", "2", "3", "4", "5", "6", "7", "8", "9">>

\* the characters int() reads as a decimal digit
DecimalChars == {AsciiDigits[i] : i \in 1..10} \cup {"ar1"}

\* the characters str.isdigit accepts
DigitChars == DecimalChars \cup {"sup2"}

DigitValue(c) ==
    IF c = "ar1" THEN 1
    ELSE (CHOOSE i \in 1..10 : AsciiDigits[i] = c) - 1

\* str(n), n >= 0
RECURSIVE Str(_)
Str(n) ==
    IF n < 10 THEN <<AsciiDigits[n + 1]>>
    ELSE Str(n \div 10) \o <<AsciiDigits[(n % 10) + 1]>>

\* s.count(c)
str_count(s, c) == Cardinality({i \in 1..Len(s) : s[i] = c})

\* s.split(c)
RECURSIVE str_split(_, _)
str_split(s, c) ==
    LET idx == {i \in 1..Len(s) : s[i] = c} IN
    IF idx = {} THEN <<s>>
    ELSE LET i == CHOOSE k \in idx : \A j \in idx : k <= j IN
         <<SubSeq(s, 1, i - 1)>> \o str_split(SubSeq(s, i + 1, Len(s)), c)

\* sep.join(parts)
RECURSIVE str_join(_, _)
str_join(parts, sep) ==
    IF parts = <<>> THEN <<>>
    ELSE IF Len(parts) = 1 THEN parts[1]
    ELSE parts[1] \o sep \o str_join(Tail(parts), sep)

\* s.replace(c, "")
str_remove(s, c) == SelectSeq(s, LAMBDA x : x # c)

\* s.isdigit()
str_isdigit(s) == Len(s) > 0 /\ \A i \in 1..Len(s) : s[i] \in DigitChars

\* int(s) returns (it raises ValueError otherwise); s is non-empty where called
int_ok(s) == Len(s) > 0 /\ \A i \in 1..Len(s) : s[i] \in DecimalChars

\* int(s), where int_ok(s)
RECURSIVE int_value(_)
int_value(s) ==
    IF s = <<>> THEN 0
    ELSE 10 * int_value(SubSeq(s, 1, Len(s) - 1)) + DigitValue(s[Len(s)])

\* int(s, 2), s a text of "0" and "1"
RECURSIVE int_base2(_)
int_base2(s) ==
    IF s = <<>> THEN <<0, 0>>
    ELSE LET r == int_base2(SubSeq(s, 1, Len(s) - 1)) IN
         LET lo == 2 * r[2] + (IF s[Len(s)] = "1" THEN 1 ELSE 0) IN
         <<2 * r[1] + (lo \div Half), lo % Half>>

\* bin(n)[2:], 0 <= n < 2^16
RECURSIVE bin_half(_)
bin_half(n) ==
    IF n < 2 THEN <<AsciiDigits[n + 1]>>
    ELSE bin_half(n \div 2) \o <<AsciiDigits[(n % 2) + 1]>>

\* the format without its fill
pad_left_None(s, width) == s

\* f"{s:0>width}"
RECURSIVE pad_left(_, _)
pad_left(s, width) == IF Len(s) >= width THEN s ELSE pad_left(<<"0">> \o s, width)

\* bin(w)[2:], w >= 0
py_bin(w) == IF w[1] = 0 THEN bin_half(w[2]) ELSE bin_half(w[1]) \o pad_left(bin_half(w[2]), 16)

\* c * n
Repeat(c, n) == [i \in 1..n |-> c]

\* [s[i : i + 8] for i in range(0, len(s), 8)]
Groups8(s) == [k \in 1..((Len(s) + 7) \div 8) |->
                  SubSeq(s, 8 * (k - 1) + 1, IF 8 * k <= Len(s) THEN 8 * k ELSE Len(s))]

(***************************************************************************)
(* What a call ends with: a value, None, or an uncaught ValueError.        *)
(***************************************************************************)
None == [tag |-> "None", str |-> <<>>, int |-> <<0, 0>>, bool |-> FALSE]

ValueError == [tag |-> "ValueError", str |-> <<>>, int |-> <<0, 0>>, bool |-> FALSE]

StrResult(s) == [tag |-> "str", str |-> s, int |-> <<0, 0>>, bool |-> FALSE]

IntResult(w) == [tag |-> "int", str |-> <<>>, int |-> w, bool |-> FALSE]

BoolResult(b) == [tag |-> "bool", str |-> <<>>, int |-> <<0, 0>>, bool |-> b]

\* all(lo <= int(i) <= hi for i in segs): "True", "False", or "ValueError"
\* from the first segment int() cannot read, unless an earlier one is out of range
RECURSIVE all_in_range(_, _, _)
all_in_range(segs, lo, hi) ==
    IF segs = <<>> THEN "True"
    ELSE IF ~int_ok(Head(segs)) THEN "ValueError"
    ELSE IF ~(lo <= int_value(Head(segs)) /\ int_value(Head(segs)) <= hi) THEN "False"
    ELSE all_in_range(Tail(segs), lo, hi)

\* the octets packed last octet first
ip_to_int_Reversed(ip_address) ==
    IF str_count(ip_address, ".") # 3 THEN None
    ELSE LET segs == str_split(ip_address, ".") IN
         IF ~(\A i \in 1..Len(segs) : str_isdigit(segs[i])) THEN None
         ELSE LET r == all_in_range(segs, 0, 255) IN
              IF r = "ValueError" THEN ValueError
              ELSE IF r = "False" THEN None
              ELSE IntResult(int_base2(str_join(
                       [i \in 1..Len(segs) |->
                            pad_left(py_bin(Wide(int_value(segs[Len(segs) + 1 - i]))), 8)],
                       <<>>)))

ip_to_int(ip_address) ==
    IF str_count(ip_address, ".") # 3 THEN None
    ELSE LET segs == str_split(ip_address, ".") IN
         IF ~(\A i \in 1..Len(segs) : str_isdigit(segs[i])) THEN None
         ELSE LET r == all_in_range(segs, 0, 255) IN
              IF r = "ValueError" THEN ValueError
              ELSE IF r = "False" THEN None
              ELSE IntResult(int_base2(str_join(
                       [i \in 1..Len(segs) |-> pad_left(py_bin(Wide(int_value(segs[i]))), 8)],
                       <<>>)))

int_to_ip(ip_address) ==
    IF ~(WLe(<<0, 0>>, ip_address) /\ WLe(ip_address, <<65535, 65535>>)) THEN None
    ELSE LET bin_str_ip == pad_left(py_bin(ip_address), 32) IN
         LET groups == Groups8(bin_str_ip) IN
         StrResult(str_join([k \in 1..Len(groups) |-> Str(Small(int_base2(groups[k])))],
                            <<".">>))

validate_raw_address(raw_address) ==
    IF str_count(raw_address, "/") = 0 THEN BoolResult(FALSE)
    ELSE LET parts == str_split(raw_address, "/") IN
         IF Len(parts) # 2 THEN BoolResult(FALSE)
         ELSE IF str_count(parts[1], ".") # 3 THEN BoolResult(FALSE)
         ELSE LET segs == str_split(parts[1], ".") IN
              IF ~(\A i \in 1..Len(segs) : str_isdigit(segs[i])) THEN BoolResult(FALSE)
              ELSE LET r == all_in_range(segs, 0, 255) IN
                   IF r = "ValueError" THEN ValueError
                   ELSE IF r = "False" THEN BoolResult(FALSE)
                   ELSE IF ~str_isdigit(parts[2]) THEN BoolResult(FALSE)
                   ELSE LET p == all_in_range(<<parts[2]>>, 0, 32) IN
                        IF p = "ValueError" THEN ValueError
                        ELSE BoolResult(p = "True")

Raises(r) == r.tag = "ValueError"

\* the address part returned without validate_raw_address being asked
get_ip_Unvalidated(raw_address) == StrResult(str_split(raw_address, "/")[1])

get_ip_from_raw_address(raw_address) ==
    LET valid == validate_raw_address(raw_address) IN
    IF Raises(valid) THEN ValueError
    ELSE IF ~valid.bool THEN None
    ELSE StrResult(str_split(raw_address, "/")[1])

get_binary_mask_from_raw_address(raw_address) ==
    LET valid == validate_raw_address(raw_address) IN
    IF Raises(valid) THEN ValueError
    ELSE IF ~valid.bool THEN None
    ELSE LET subnet == int_value(str_split(raw_address, "/")[2]) IN
         LET mask == Repeat("1", subnet) \o Repeat("0", 32 - subnet) IN
         StrResult(str_join(Groups8(mask), <<".">>))

get_network_address_from_raw_address(raw_address) ==
    LET valid == validate_raw_address(raw_address) IN
    IF Raises(valid) THEN ValueError
    ELSE IF ~valid.bool THEN None
    ELSE LET binary_mask_str == get_binary_mask_from_raw_address(raw_address) IN
         LET ip_str == get_ip_from_raw_address(raw_address) IN
         IF Raises(binary_mask_str) \/ Raises(ip_str) THEN ValueError
         ELSE IF binary_mask_str = None \/ ip_str = None THEN None
         ELSE LET mask == int_base2(str_remove(binary_mask_str.str, ".")) IN
              LET ip_address == ip_to_int(ip_str.str) IN
              IF Raises(ip_address) THEN ValueError
              ELSE IF ip_address = None THEN None
              ELSE int_to_ip(WAnd(ip_address.int, mask))

get_broadcast_address_from_raw_address(raw_address) ==
    LET valid == validate_raw_address(raw_address) IN
    IF Raises(valid) THEN ValueError
    ELSE IF ~valid.bool THEN None
    ELSE LET binary_mask_str == get_binary_mask_from_raw_address(raw_address) IN
         LET ip_str == get_ip_from_raw_address(raw_address) IN
         IF Raises(binary_mask_str) \/ Raises(ip_str) THEN ValueError
         ELSE IF binary_mask_str = None \/ ip_str = None THEN None
         ELSE LET bits == str_remove(binary_mask_str.str, ".") IN
              LET inverted_binary_mask_str ==
                      [i \in 1..Len(bits) |-> IF bits[i] = "0" THEN "1" ELSE "0"] IN
              LET ip_address == ip_to_int(ip_str.str) IN
              LET mask == int_base2(inverted_binary_mask_str) IN
              IF Raises(ip_address) THEN ValueError
              ELSE IF ip_address = None THEN None
              ELSE int_to_ip(WOr(ip_address.int, mask))

\* the broadcast address taken where the network address is meant
get_first_usable_FromBroadcast(raw_address) ==
    LET valid == validate_raw_address(raw_address) IN
    IF Raises(valid) THEN ValueError
    ELSE IF ~valid.bool THEN None
    ELSE LET network_address == get_broadcast_address_from_raw_address(raw_address) IN
         IF Raises(network_address) THEN ValueError
         ELSE IF network_address = None THEN None
         ELSE LET int_network_address == ip_to_int(network_address.str) IN
              IF Raises(int_network_address) THEN ValueError
              ELSE IF int_network_address = None THEN None
              ELSE int_to_ip(WAdd(int_network_address.int, 1))

get_first_usable_ip_address_from_raw_address(raw_address) ==
    LET valid == validate_raw_address(raw_address) IN
    IF Raises(valid) THEN ValueError
    ELSE IF ~valid.bool THEN None
    ELSE LET network_address == get_network_address_from_raw_address(raw_address) IN
         IF Raises(network_address) THEN ValueError
         ELSE IF network_address = None THEN None
         ELSE LET int_network_address == ip_to_int(network_address.str) IN
              IF Raises(int_network_address) THEN ValueError
              ELSE IF int_network_address = None THEN None
              ELSE int_to_ip(WAdd(int_network_address.int, 1))

get_penultimate_usable_ip_address_from_raw_address(raw_address) ==
    LET valid == validate_raw_address(raw_address) IN
    IF Raises(valid) THEN ValueError
    ELSE IF ~valid.bool THEN None
    ELSE LET broadcast_address == get_broadcast_address_from_raw_address(raw_address) IN
         IF Raises(broadcast_address) THEN ValueError
         ELSE IF broadcast_address = None THEN None
         ELSE LET int_broadcast_address == ip_to_int(broadcast_address.str) IN
              IF Raises(int_broadcast_address) THEN ValueError
              ELSE IF int_broadcast_address = None THEN None
              ELSE int_to_ip(WAdd(int_broadcast_address.int, -2))

\* the count clamped at 0
get_number_of_usable_hosts_Clamped(raw_address) ==
    LET valid == validate_raw_address(raw_address) IN
    IF Raises(valid) THEN ValueError
    ELSE IF ~valid.bool THEN None
    ELSE LET n == WAdd(WPow2(32 - int_value(str_split(raw_address, "/")[2])), -2) IN
         IntResult(IF WLe(<<0, 0>>, n) THEN n ELSE <<0, 0>>)

get_number_of_usable_hosts_from_raw_address(raw_address) ==
    LET valid == validate_raw_address(raw_address) IN
    IF Raises(valid) THEN ValueError
    ELSE IF ~valid.bool THEN None
    ELSE IntResult(WAdd(WPow2(32 - int_value(str_split(raw_address, "/")[2])), -2))

\* the text "a.b.c.d" of a literal of the source
Dotted(a, b, c, d) == str_join(<<Str(a), Str(b), Str(c), Str(d)>>, <<".">>)

a_start == ip_to_int(Dotted(1, 0, 0, 0))

a_end_Loopback == ip_to_int(Dotted(127, 255, 255, 255))

a_end == ip_to_int(Dotted(126, 255, 255, 255))

b_start == ip_to_int(Dotted(128, 0, 0, 0))

b_end == ip_to_int(Dotted(191, 255, 255, 255))

c_start == ip_to_int(Dotted(192, 0, 0, 0))

c_end == ip_to_int(Dotted(223, 255, 255, 255))

d_start == ip_to_int(Dotted(224, 0, 0, 0))

d_end == ip_to_int(Dotted(239, 255, 255, 255))

e_start == ip_to_int(Dotted(240, 0, 0, 0))

e_end == ip_to_int(Dotted(255, 255, 255, 255))

get_ip_class_from_raw_address(raw_address) ==
    LET valid == validate_raw_address(raw_address) IN
    IF Raises(valid) THEN ValueError
    ELSE IF ~valid.bool THEN None
    ELSE LET ip_address == get_ip_from_raw_address(raw_address) IN
         IF Raises(ip_address) THEN ValueError
         ELSE IF ip_address = None THEN None
         ELSE LET ip_int == ip_to_int(ip_address.str) IN
              IF Raises(ip_int) THEN ValueError
              ELSE IF ip_int = None THEN None
              ELSE IF None \in {a_start, a_end, b_start, b_end, c_start, c_end,
                           d_start, d_end, e_start, e_end} THEN None
              ELSE IF WLe(a_start.int, ip_int.int) /\ WLe(ip_int.int, a_end.int)
                   THEN StrResult(<<"A">>)
              ELSE IF WLe(b_start.int, ip_int.int) /\ WLe(ip_int.int, b_end.int)
                   THEN StrResult(<<"B">>)
              ELSE IF WLe(c_start.int, ip_int.int) /\ WLe(ip_int.int, c_end.int)
                   THEN StrResult(<<"C">>)
              ELSE IF WLe(d_start.int, ip_int.int) /\ WLe(ip_int.int, d_end.int)
                   THEN StrResult(<<"D">>)
              ELSE IF WLe(e_start.int, ip_int.int) /\ WLe(ip_int.int, e_end.int)
                   THEN StrResult(<<"E">>)
              ELSE None

\* 172.31.x.x left out of the private range
check_private_ip_address_Exclusive(raw_address) ==
    LET valid == validate_raw_address(raw_address) IN
    IF Raises(valid) THEN ValueError
    ELSE IF ~valid.bool THEN None
    ELSE LET ip_address == get_ip_from_raw_address(raw_address) IN
         IF Raises(ip_address) THEN ValueError
         ELSE IF ip_address = None THEN None
         ELSE LET octets == str_split(ip_address.str, ".") IN
              IF octets[1] = <<"1", "0">> THEN BoolResult(TRUE)
              ELSE IF octets[1] = <<"1", "7", "2">>
                      /\ 16 <= int_value(octets[2]) /\ int_value(octets[2]) < 31
                   THEN BoolResult(TRUE)
              ELSE IF octets[1] = <<"1", "9", "2">> /\ octets[2] = <<"1", "6", "8">>
                   THEN BoolResult(TRUE)
              ELSE BoolResult(FALSE)

check_private_ip_address_from_raw_address(raw_address) ==
    LET valid == validate_raw_address(raw_address) IN
    IF Raises(valid) THEN ValueError
    ELSE IF ~valid.bool THEN None
    ELSE LET ip_address == get_ip_from_raw_address(raw_address) IN
         IF Raises(ip_address) THEN ValueError
         ELSE IF ip_address = None THEN None
         ELSE LET octets == str_split(ip_address.str, ".") IN
              IF octets[1] = <<"1", "0">> THEN BoolResult(TRUE)
              ELSE IF octets[1] = <<"1", "7", "2">>
                      /\ 16 <= int_value(octets[2]) /\ int_value(octets[2]) <= 31
                   THEN BoolResult(TRUE)
              ELSE IF octets[1] = <<"1", "9", "2">> /\ octets[2] = <<"1", "6", "8">>
                   THEN BoolResult(TRUE)
              ELSE BoolResult(FALSE)

(***************************************************************************)
(* The inputs: raw addresses, plain addresses and malformed texts for the  *)
(* operations on text, ints for int_to_ip.                                 *)
(***************************************************************************)
Address(o1, o2, o3, o4) == str_join(<<o1, o2, o3, o4>>, <<".">>)

RawText(address, prefix) == address \o <<"/">> \o prefix

\* every first octet, with the lowest and the highest address under it
ClassAddrs ==
    {Address(Str(a), Str(t), Str(t), Str(t)) : a \in 0..MaxOctetValue, t \in {0, 255}}

ClassInputs == {RawText(x, Str(p)) : x \in ClassAddrs, p \in {0, 32}}

FirstOctets ==
    {Str(10), Str(172), Str(192), Str(11), <<"0">> \o Str(10), <<"ar1", "0">>}

\* every second octet under the first octets of the private ranges and next to them
PrivateInputs ==
    {RawText(Address(f, Str(b), <<"0">>, <<"1">>), Str(16)) :
         f \in FirstOctets, b \in 0..MaxOctetValue}

SubnetAddrs ==
    {<<0, 0, 0, 0>>, <<255, 255, 255, 255>>, <<192, 168, 0, 1>>, <<127, 0, 1, 1>>,
     <<10, 170, 85, 204>>, <<128, 0, 0, 1>>, <<1, 2, 3, 4>>, <<172, 16, 254, 255>>}

\* a.b.c.d with z leading zeros on the first octet
Padded(a, z) == Address(Repeat("0", z) \o Str(a[1]), Str(a[2]), Str(a[3]), Str(a[4]))

\* every prefix value, with and without leading zeros
SubnetInputs ==
    {RawText(Padded(a, z), Repeat("0", z) \o Str(p)) :
         a \in SubnetAddrs, p \in 0..MaxPrefixValue, z \in 0..MaxPad}

PlainInputs ==
    ClassAddrs \cup {Padded(a, z) : a \in SubnetAddrs, z \in 0..MaxPad}
    \cup {Address(f, Str(1), Str(0), Str(1)) : f \in FirstOctets}

\* k octets and j '/'-separated parts
ShapeInputs ==
    {str_join(<<str_join(Repeat(<<"1">>, k), <<".">>)>> \o Repeat(Str(16), j - 1), <<"/">>) :
         k \in 1..MaxSegs, j \in 1..MaxParts}

BadTexts ==
    {<<>>, <<"-", "2">>, <<"a">>, <<"+", "1">>, <<"2", ".", "5">>,
     <<"sup2">>, <<"1", "sup2">>, <<"ar1">>, <<"ar1", "sup2">>}

\* one octet, or the prefix, is not a decimal number
DefectInputs ==
    {RawText(str_join([Repeat(Str(1), 4) EXCEPT ![i] = b], <<".">>), Str(16)) :
         i \in 1..4, b \in BadTexts}
    \cup {RawText(Address(Str(1), Str(1), Str(1), Str(1)), b) : b \in BadTexts}

\* several defects at once: the order of the checks decides the outcome
MixOctets == {Str(1), Str(256), <<"sup2">>}

MixInputs ==
    {RawText(Address(o1, o2, o3, o4), p) :
         o1 \in MixOctets, o2 \in MixOctets, o3 \in MixOctets, o4 \in MixOctets,
         p \in {Str(16), Str(33), <<"sup2">>, <<>>}}

\* the same addresses with no prefix, as ip_to_int takes them
PlainMixInputs ==
    {Address(o1, o2, o3, o4) :
         o1 \in MixOctets, o2 \in MixOctets, o3 \in MixOctets, o4 \in MixOctets}

TextInputs ==
    ClassInputs \cup PrivateInputs \cup SubnetInputs \cup PlainInputs
    \cup ShapeInputs \cup DefectInputs \cup MixInputs \cup PlainMixInputs

Halves ==
    {2 ^ k : k \in 0..15} \cup {2 ^ k - 1 : k \in 0..16} \cup {21845, 43690, 49320}

\* ints in and around [0, 4294967295]
IntInputs == {<<h, l>> : h \in Halves \cup {-1, Half}, l \in Halves}

TextInput(t) == [kind |-> "text", text |-> t, int |-> <<0, 0>>]

IntInput(w) == [kind |-> "int", text |-> <<>>, int |-> w]

Init ==
    /\ inp \in {TextInput(t) : t \in TextInputs} \cup {IntInput(w) : w \in IntInputs}
    /\ op = "input"
    /\ result = None

\* one call of an operation on the input text
Call(name, r) ==
    /\ op = "input"
    /\ inp.kind = "text"
    /\ op' = name
    /\ result' = r
    /\ UNCHANGED inp

CallIpToInt == Call("ip_to_int", ip_to_int(inp.text))

CallIntToIp ==
    /\ op = "input"
    /\ inp.kind = "int"
    /\ op' = "int_to_ip"
    /\ result' = int_to_ip(inp.int)
    /\ UNCHANGED inp

CallValidate == Call("validate_raw_address", validate_raw_address(inp.text))

CallGetIp == Call("get_ip", get_ip_from_raw_address(inp.text))

CallNetwork == Call("get_network_address", get_network_address_from_raw_address(inp.text))

CallBroadcast ==
    Call("get_broadcast_address", get_broadcast_address_from_raw_address(inp.text))

CallMask == Call("get_binary_mask", get_binary_mask_from_raw_address(inp.text))

CallFirst ==
    Call("get_first_usable_ip_address", get_first_usable_ip_address_from_raw_address(inp.text))

CallPenultimate ==
    Call("get_penultimate_usable_ip_address",
         get_penultimate_usable_ip_address_from_raw_address(inp.text))

CallHosts ==
    Call("get_number_of_usable_hosts", get_number_of_usable_hosts_from_raw_address(inp.text))

CallClass == Call("get_ip_class", get_ip_class_from_raw_address(inp.text))

CallPrivate ==
    Call("check_private_ip_address", check_private_ip_address_from_raw_address(inp.text))

\* the int ip_to_int returned, given to int_to_ip
ThenIntToIp ==
    /\ op = "ip_to_int"
    /\ result.tag = "int"
    /\ op' = "ip_to_int;int_to_ip"
    /\ result' = int_to_ip(result.int)
    /\ UNCHANGED inp

\* the text int_to_ip returned, given to ip_to_int
ThenIpToInt ==
    /\ op = "int_to_ip"
    /\ result.tag = "str"
    /\ op' = "int_to_ip;ip_to_int"
    /\ result' = ip_to_int(result.str)
    /\ UNCHANGED inp

Next ==
    \/ CallIpToInt
    \/ CallIntToIp
    \/ CallValidate
    \/ CallGetIp
    \/ CallNetwork
    \/ CallBroadcast
    \/ CallMask
    \/ CallFirst
    \/ CallPenultimate
    \/ CallHosts
    \/ CallClass
    \/ CallPrivate
    \/ ThenIntToIp
    \/ ThenIpToInt

Spec == Init /\ [][Next]_vars

(***************************************************************************)
(* What the properties below speak of.                                     *)
(***************************************************************************)
DerivedOps ==
    {"get_ip", "get_network_address", "get_broadcast_address", "get_binary_mask",
     "get_first_usable_ip_address", "get_penultimate_usable_ip_address",
     "get_number_of_usable_hosts", "get_ip_class", "check_private_ip_address"}

\* validate_raw_address returns True on the input / returns False on it
IsValid == inp.kind = "text" /\ validate_raw_address(inp.text) = BoolResult(TRUE)

IsRejected == inp.kind = "text" /\ validate_raw_address(inp.text) = BoolResult(FALSE)

\* the octet texts, the octet values and the prefix value of a valid input
OctetTexts == str_split(str_split(inp.text, "/")[1], ".")

Octet(i) == int_value(OctetTexts[i])

Prefix == int_value(str_split(inp.text, "/")[2])

\* a text is a decimal number in lo..hi
IsDecimalIn(s, lo, hi) ==
    /\ s # <<>>
    /\ \A i \in 1..Len(s) : s[i] \in DecimalChars
    /\ lo <= int_value(s) /\ int_value(s) <= hi

\* the 32-bit value of a dotted-decimal text, by arithmetic on its octets
TextValue(t) ==
    LET o == str_split(t, ".") IN
    <<256 * int_value(o[1]) + int_value(o[2]), 256 * int_value(o[3]) + int_value(o[4])>>

\* how many of the mask's leading 1 bits fall in octet i
OnesIn(i) ==
    IF Prefix >= 8 * i THEN 8
    ELSE IF Prefix <= 8 * (i - 1) THEN 0
    ELSE Prefix - 8 * (i - 1)

\* octet i of (address AND mask) and of (address OR NOT mask)
NetworkOctet(i) == Octet(i) - (Octet(i) % (2 ^ (8 - OnesIn(i))))

BroadcastOctet(i) == NetworkOctet(i) + (2 ^ (8 - OnesIn(i))) - 1

(***************************************************************************)
(* C1: on an input validate_raw_address returns False for, each of the     *)
(* nine derived operations returns None.                                   *)
(***************************************************************************)
C1_InvalidGivesNone ==
    (op \in DerivedOps /\ IsRejected) => result = None

\* a derived operation has answered a text with two '/'
C1_Witness ==
    /\ op = "check_private_ip_address"
    /\ IsRejected
    /\ str_count(inp.text, "/") = 2
    /\ result = None

\* the texts validate_raw_address is to accept
WellFormed(t) ==
    /\ str_count(t, "/") = 1
    /\ LET parts == str_split(t, "/") IN
       /\ str_count(parts[1], ".") = 3
       /\ \A i \in 1..4 : IsDecimalIn(str_split(parts[1], ".")[i], 0, 255)
       /\ IsDecimalIn(parts[2], 0, 32)

\* one of the defects the claim lists
Defective(t) ==
    \/ str_count(t, "/") # 1
    \/ LET parts == str_split(t, "/") IN
       LET octets == str_split(parts[1], ".") IN
       \/ ~str_isdigit(parts[2])
       \/ int_ok(parts[2]) /\ int_value(parts[2]) > 32
       \/ Len(octets) # 4
       \/ \E i \in 1..Len(octets) :
              \/ ~str_isdigit(octets[i])
              \/ int_ok(octets[i]) /\ int_value(octets[i]) > 255
              \/ (octets[i] # <<>> /\ octets[i][1] = "-")

\* C2, first half: validate_raw_address returns True exactly on the well-formed texts
C2_TrueExactlyWhenWellFormed ==
    op = "validate_raw_address" => (result = BoolResult(TRUE) <=> WellFormed(inp.text))

(***************************************************************************)
(* C2: validate_raw_address returns True exactly on the texts with one     *)
(* '/', four decimal octets in 0..255 separated by three '.', and a        *)
(* decimal prefix in 0..32; and it returns False on a text with no '/',    *)
(* several '/', a prefix that is not all digits or is outside 0..32, a     *)
(* number of dots other than 3, an octet outside 0..255, an octet that is  *)
(* not all digits, or an octet that starts with '-'.                       *)
(***************************************************************************)
C2_ValidateDecides ==
    op = "validate_raw_address" =>
        /\ result = BoolResult(TRUE) <=> WellFormed(inp.text)
        /\ Defective(inp.text) => result = BoolResult(FALSE)

(***************************************************************************)
(* C3: int_to_ip returns a text for every int in [0, 4294967295], and      *)
(* ip_to_int of that text is the int.                                      *)
(***************************************************************************)
C3_IntRoundTrip ==
    /\ (op = "int_to_ip" /\ inp.int[1] \in 0..(Half - 1)) => result.tag = "str"
    /\ op = "int_to_ip;ip_to_int" => result = IntResult(inp.int)

\* 4294967295 has gone to text and back
C3_Witness ==
    /\ op = "int_to_ip;ip_to_int"
    /\ inp.int = <<Half - 1, Half - 1>>
    /\ result = IntResult(inp.int)

(***************************************************************************)
(* C4, as claimed: int_to_ip(ip_to_int(t)) is t for every text t that      *)
(* ip_to_int accepts.                                                      *)
(***************************************************************************)
C4_TextRoundTrip ==
    op = "ip_to_int;int_to_ip" => result = StrResult(inp.text)

\* every octet is written as str() writes its value
Canonical(t) ==
    \A i \in 1..4 : str_split(t, ".")[i] = Str(int_value(str_split(t, ".")[i]))

(***************************************************************************)
(* C4, amended: int_to_ip(ip_to_int(t)) is the text of t's octet values    *)
(* in decimal without leading zeros, which is t exactly when t's octets    *)
(* are written that way.                                                   *)
(***************************************************************************)
C4_CanonicalRoundTrip ==
    op = "ip_to_int;int_to_ip" =>
        /\ result = StrResult(str_join([i \in 1..4 |->
                                  Str(int_value(str_split(inp.text, ".")[i]))], <<".">>))
        /\ (result = StrResult(inp.text) <=> Canonical(inp.text))

\* a canonical text has come back unchanged
C4_Witness ==
    /\ op = "ip_to_int;int_to_ip"
    /\ inp.text = Dotted(192, 168, 0, 1)
    /\ result = StrResult(inp.text)

(***************************************************************************)
(* C5: on a valid raw address the network address is the dotted-decimal    *)
(* text of the address AND the mask of Prefix leading 1 bits; the mask     *)
(* depends on the prefix alone.  "192.168.0.1/16" gives "192.168.0.0".     *)
(***************************************************************************)
C5_NetworkAddress ==
    (op = "get_network_address" /\ IsValid) =>
        /\ result = StrResult(Dotted(NetworkOctet(1), NetworkOctet(2),
                                     NetworkOctet(3), NetworkOctet(4)))
        /\ inp.text = RawText(Dotted(192, 168, 0, 1), Str(16))
               => result.str = Dotted(192, 168, 0, 0)

C5_Witness ==
    /\ op = "get_network_address"
    /\ inp.text = RawText(Dotted(192, 168, 0, 1), Str(16))
    /\ result = StrResult(Dotted(192, 168, 0, 0))

(***************************************************************************)
(* C6: on a valid raw address the broadcast address is the dotted-decimal  *)
(* text of the address with its low 32 - Prefix bits set.                  *)
(* "192.168.0.1/16" gives "192.168.255.255".                               *)
(***************************************************************************)
C6_BroadcastAddress ==
    (op = "get_broadcast_address" /\ IsValid) =>
        /\ result = StrResult(Dotted(BroadcastOctet(1), BroadcastOctet(2),
                                     BroadcastOctet(3), BroadcastOctet(4)))
        /\ inp.text = RawText(Dotted(192, 168, 0, 1), Str(16))
               => result.str = Dotted(192, 168, 255, 255)

C6_Witness ==
    /\ op = "get_broadcast_address"
    /\ inp.text = RawText(Dotted(192, 168, 0, 1), Str(16))
    /\ result = StrResult(Dotted(192, 168, 255, 255))

(***************************************************************************)
(* C7: on a valid raw address with prefix in 0..30 the four addresses are  *)
(* present and network <= first usable <= penultimate usable <= broadcast. *)
(***************************************************************************)
C7_Ordering ==
    (IsValid /\ Prefix <= 30) =>
        LET network == get_network_address_from_raw_address(inp.text)
            first == get_first_usable_ip_address_from_raw_address(inp.text)
            penultimate == get_penultimate_usable_ip_address_from_raw_address(inp.text)
            broadcast == get_broadcast_address_from_raw_address(inp.text)
        IN
        /\ op = "get_first_usable_ip_address" =>
               /\ result.tag = "str" /\ network.tag = "str" /\ penultimate.tag = "str"
               /\ WLe(TextValue(network.str), TextValue(result.str))
               /\ WLe(TextValue(result.str), TextValue(penultimate.str))
        /\ op = "get_penultimate_usable_ip_address" =>
               /\ result.tag = "str" /\ first.tag = "str" /\ broadcast.tag = "str"
               /\ WLe(TextValue(first.str), TextValue(result.str))
               /\ WLe(TextValue(result.str), TextValue(broadcast.str))

\* prefix 30: the first usable and the penultimate usable address coincide
C7_Witness ==
    /\ op = "get_penultimate_usable_ip_address"
    /\ IsValid
    /\ Prefix = 30
    /\ result = get_first_usable_ip_address_from_raw_address(inp.text)
    /\ result.tag = "str"

(***************************************************************************)
(* C8: on a valid raw address the number of usable hosts is                *)
(* 2^(32 - Prefix) - 2, whatever the address: 0 for prefix 31, -1 for 32.  *)
(***************************************************************************)
C8_HostCount ==
    (op = "get_number_of_usable_hosts" /\ IsValid) =>
        /\ result.tag = "int"
        /\ Prefix >= 2 => Small(result.int) = 2 ^ (32 - Prefix) - 2
        /\ Prefix = 1 => result.int = <<2 ^ 15 - 1, Half - 2>>
        /\ Prefix = 0 => result.int = <<Half - 1, Half - 2>>
        /\ Prefix = 31 => result.int = <<0, 0>>
        /\ Prefix = 32 => Small(result.int) = -1

C8_Witness ==
    /\ op = "get_number_of_usable_hosts"
    /\ IsValid
    /\ Prefix = 32
    /\ result.tag = "int"
    /\ Small(result.int) = -1

\* the class letter of a first octet
ClassOf(o) ==
    IF o \in 1..126 THEN StrResult(<<"A">>)
    ELSE IF o \in 128..191 THEN StrResult(<<"B">>)
    ELSE IF o \in 192..223 THEN StrResult(<<"C">>)
    ELSE IF o \in 224..239 THEN StrResult(<<"D">>)
    ELSE IF o \in 240..255 THEN StrResult(<<"E">>)
    ELSE None

(***************************************************************************)
(* C9: on a valid raw address the class is A for a first octet in 1..126,  *)
(* B for 128..191, C for 192..223, D for 224..239, E for 240..255, and     *)
(* None exactly for a first octet of 0 or 127, whatever the prefix.        *)
(***************************************************************************)
C9_IpClass ==
    (op = "get_ip_class" /\ IsValid) =>
        /\ result = ClassOf(Octet(1))
        /\ result = None <=> Octet(1) \in {0, 127}

\* the loopback block has no class
C9_Witness ==
    /\ op = "get_ip_class"
    /\ IsValid
    /\ Octet(1) = 127
    /\ result = None

(***************************************************************************)
(* C10: on a valid raw address check_private_ip_address_from_raw_address   *)
(* returns a boolean: True when the first octet is written "10", or is     *)
(* written "172" with a second octet of value 16..31, or is written "192"  *)
(* with the second octet written "168"; False otherwise.                   *)
(***************************************************************************)
C10_Private ==
    (op = "check_private_ip_address" /\ IsValid) =>
        result = BoolResult(\/ OctetTexts[1] = Str(10)
                            \/ OctetTexts[1] = Str(172) /\ Octet(2) \in 16..31
                            \/ OctetTexts[1] = Str(192) /\ OctetTexts[2] = Str(168))

\* the last block of 172.16.0.0/12
C10_Witness ==
    /\ op = "check_private_ip_address"
    /\ IsValid
    /\ OctetTexts[1] = Str(172)
    /\ Octet(2) = 31
    /\ result = BoolResult(TRUE)

(***************************************************************************)
(* C11: whatever the input text, ip_to_int, validate_raw_address and the   *)
(* derived operations end with a value or None, never with an uncaught     *)
(* error.                                                                  *)
(***************************************************************************)
C11_NoUncaughtError ==
    op # "input" => result.tag \in {"None", "str", "int", "bool"}

(***************************************************************************)
(* C12: on a valid raw address, whatever the prefix, the first usable      *)
(* address is the text of the network address value + 1 and the            *)
(* penultimate usable address is the text of the broadcast address value   *)
(* - 2; neither operation returns None.                                    *)
(***************************************************************************)
C12_UsableAddresses ==
    IsValid =>
        LET network == get_network_address_from_raw_address(inp.text)
            broadcast == get_broadcast_address_from_raw_address(inp.text)
        IN
        /\ op = "get_first_usable_ip_address" =>
               /\ result.tag = "str"
               /\ TextValue(result.str) = WAdd(TextValue(network.str), 1)
        /\ op = "get_penultimate_usable_ip_address" =>
               /\ result.tag = "str"
               /\ TextValue(result.str) = WAdd(TextValue(broadcast.str), -2)

\* the results the claim says depend on the address value and the prefix value alone
ValueOps ==
    {"get_network_address", "get_broadcast_address", "get_first_usable_ip_address",
     "get_penultimate_usable_ip_address", "get_number_of_usable_hosts",
     "get_ip_class", "check_private_ip_address"}

\* the operation called name, on raw text t
Apply(name, t) ==
    CASE name = "get_network_address" -> get_network_address_from_raw_address(t)
      [] name = "get_broadcast_address" -> get_broadcast_address_from_raw_address(t)
      [] name = "get_first_usable_ip_address" ->
             get_first_usable_ip_address_from_raw_address(t)
      [] name = "get_penultimate_usable_ip_address" ->
             get_penultimate_usable_ip_address_from_raw_address(t)
      [] name = "get_number_of_usable_hosts" ->
             get_number_of_usable_hosts_from_raw_address(t)
      [] name = "get_ip_class" -> get_ip_class_from_raw_address(t)
      [] name = "check_private_ip_address" -> check_private_ip_address_from_raw_address(t)

\* the raw text of the same address value and prefix value, written without
\* leading zeros and in ASCII digits
CanonicalRaw == RawText(Dotted(Octet(1), Octet(2), Octet(3), Octet(4)), Str(Prefix))

(***************************************************************************)
(* C13: two valid raw texts of the same address value and the same prefix  *)
(* value get the same network address, broadcast address, first and        *)
(* penultimate usable address, host count, class letter and private flag:  *)
(* each result on a valid text is the result on the canonical text of its  *)
(* values.                                                                 *)
(***************************************************************************)
C13_ValueDetermined ==
    (op \in ValueOps /\ IsValid) => result = Apply(op, CanonicalRaw)

====
